---- MODULE Spec2Model ----
(***************************************************************************)
(* Fault-injection subsystem of the petshop observability demo:            *)
(*   - ChaosSimulator (catalog-service/src/chaos_simulator.py): the        *)
(*     infrastructure stress controller, its disk-stress and crash-        *)
(*     scheduler worker threads, and the request-scoped stressors;         *)
(*   - FeatureFlagClient (checkout-service/src/feature_flag_client.py);    *)
(*   - FailureSimulator of both services and the HTTP boundary of the      *)
(*     routes that call it.                                                *)
(*                                                                         *)
(* Request handlers are coroutines of one asyncio event loop: they         *)
(* interleave with each other only at an await.  The workers are OS        *)
(* threads: they interleave with the handlers and with each other at every *)
(* statement.  Program counters are named after source lines.              *)
(***************************************************************************)
EXTENDS Integers, Sequences, FiniteSets, TLC

\* ------------------------------------------------------------------ bounds
NumHandlers == 1    \* request handlers in flight at once
MaxThreads == 2     \* thread objects per stressor kind that exist at once
MaxIntensity == 2   \* largest intensityLevel a flag config carries
MaxDuration == 1    \* largest durationSeconds, in pacing intervals
FullJitterUpTo == 2 \* largest jitterMs whose every draw is enumerated

\* ------------------------------------------------------- program constants
DefaultIntensity == 5
DefaultDuration == 30
DefaultCrashInterval == 5
DefaultCrashProbability == 30
DefaultDbFailureRate == 50
DefaultDbTimeoutMs == 1000
DefaultNetDelayMs == 2000
DefaultNetJitterMs == 500
RollLow == 1
RollHigh == 100

Reqs == 1..NumHandlers
Threads == 1..MaxThreads

VARIABLES
    active_simulations,      \* self.active_simulations: kind -> bool (missing key = FALSE)
    stop_disk_stress,        \* threading.Event
    stop_crash_scheduler,    \* threading.Event
    temp_files,              \* self.temp_files: list of temp-file paths (index i of the path)
    disk_stress_thread,      \* self.disk_stress_thread: 0 (None) or a thread id
    crash_scheduler_thread,  \* self.crash_scheduler_thread: 0 (None) or a thread id
    dthr,                    \* disk_stress_worker threads: id -> frame
    cthr,                    \* crash_scheduler_worker threads: id -> frame
    disk,                    \* temp-file paths that exist on disk
    alive,                   \* the host process has not been terminated by os._exit
    req,                     \* request handlers: id -> frame
    switched_on,             \* flag source: the stressor flags switched on
    fi,                      \* one request walking the request fault injector
    active_keys,             \* keys of self.active_simulations, in insertion order
    metrics                  \* the call of get_system_metrics in progress

chaosVars == <<active_simulations, stop_disk_stress, stop_crash_scheduler, temp_files,
               disk_stress_thread, crash_scheduler_thread, dthr, cthr, disk, alive, req>>
vars == <<active_simulations, stop_disk_stress, stop_crash_scheduler, temp_files,
          disk_stress_thread, crash_scheduler_thread, dthr, cthr, disk, alive, req,
          switched_on, fi,
          active_keys, metrics>>

\* ------------------------------------------------------------ JSON values
\* A config value: an integer, or a value of the wrong type (a string).
IntVal(n) == [t |-> "int", n |-> n]
StrVal == [t |-> "str", n |-> 0]
IsInt(v) == v.t = "int"

EmptyMap == [k \in {} |-> IntVal(0)]
\* Python values a flag's "config" can hold once parsed.
DictCfg(m) == [shape |-> "dict", m |-> m]
NullCfg == [shape |-> "null", m |-> EmptyMap]      \* JSON null -> None
ListCfg == [shape |-> "list", m |-> EmptyMap]      \* not a mapping
MissingCfg == [shape |-> "missing", m |-> EmptyMap]  \* key "config" absent

\* What get_flag returns: None, or the parsed mapping.
NoneFlag == [shape |-> "None", enabled |-> FALSE, config |-> MissingCfg]
FlagDict(e, c) == [shape |-> "dict", enabled |-> e, config |-> c]

\* dict.get(key, default) on a config; AttributeError when it is no mapping.
CfgGetRaises(config) == config.shape # "dict"
CfgGet(config, key, default) ==
    IF key \in DOMAIN config.m THEN config.m[key] ELSE IntVal(default)

\* flag.get("config", {})
FlagConfigOrEmpty(flag) ==
    IF flag.config.shape = "missing" THEN DictCfg(EmptyMap) ELSE flag.config


\* ------------------------------------------------------- FeatureFlagClient
\* What the flag source does with GET {base}/api/flags/{name}.
TimeoutReply == [kind |-> "timeout", code |-> 0, parse |-> "none", flag |-> NoneFlag]
ConnectErrorReply == [kind |-> "error", code |-> 0, parse |-> "none", flag |-> NoneFlag]
StatusReply(code) == [kind |-> "http", code |-> code, parse |-> "none", flag |-> NoneFlag]
\* A 200 whose body is not JSON, or is JSON but no mapping (null, a list).
BadBodyReply(parse) == [kind |-> "http", code |-> 200, parse |-> parse, flag |-> NoneFlag]
OkReply(flag) == [kind |-> "http", code |-> 200, parse |-> "dict", flag |-> flag]

Return(v) == [exc |-> "none", val |-> v]
Raise(e, v) == [exc |-> e, val |-> v]

\* The try block of get_flag.
GetFlagTry(reply) ==
    IF reply.kind = "timeout" THEN Raise("TimeoutException", NoneFlag)
    ELSE IF reply.kind = "error" THEN Raise("ConnectError", NoneFlag)
    ELSE IF reply.code = 200 THEN
        IF reply.parse = "unparsable" THEN Raise("JSONDecodeError", NoneFlag)
        ELSE IF reply.parse # "dict" THEN Raise("AttributeError", NoneFlag)  \* flag_data.get
        ELSE Return(reply.flag)
    ELSE Return(NoneFlag)    \* 404 and every other status

\* A get_flag that lost its catch-all handler.
GetFlagNoCatchAll(reply) ==
    LET r == GetFlagTry(reply) IN
    IF r.exc = "TimeoutException" THEN Return(NoneFlag) ELSE r

get_flag(reply) ==
    LET r == GetFlagTry(reply) IN
    IF r.exc = "TimeoutException" THEN Return(NoneFlag)
    ELSE IF r.exc # "none" THEN Return(NoneFlag)
    ELSE r

\* `if flag`: None is falsy.
Truthy(flag) == flag.shape = "dict"

is_flag_enabled(reply) ==
    LET g == get_flag(reply) IN
    IF g.exc # "none" THEN Raise(g.exc, FALSE)
    ELSE Return(IF Truthy(g.val) THEN g.val.enabled ELSE FALSE)

get_flag_config(reply) ==
    LET g == get_flag(reply) IN
    IF g.exc # "none" THEN Raise(g.exc, DictCfg(EmptyMap))
    ELSE Return(IF Truthy(g.val) THEN FlagConfigOrEmpty(g.val) ELSE DictCfg(EmptyMap))

\* --------------------------------------------- flag-source replies (inputs)
Map2(k1, v1, k2, v2) == [k \in {k1, k2} |-> IF k = k1 THEN v1 ELSE v2]
Map1(k1, v1) == [k \in {k1} |-> v1]

AbsentReplies == {TimeoutReply, StatusReply(404), OkReply(FlagDict(FALSE, DictCfg(EmptyMap)))}

DiskConfig(n, d) == DictCfg(Map2("intensityLevel", n, "durationSeconds", d))
DiskConfigs ==
    {DiskConfig(IntVal(n), IntVal(MaxDuration)) : n \in 1..MaxIntensity}
    \cup {DiskConfig(IntVal(MaxIntensity), IntVal(d)) : d \in 0..MaxDuration}
    \cup {DiskConfig(StrVal, IntVal(MaxDuration)), DiskConfig(IntVal(MaxIntensity), StrVal),
          NullCfg}
CrashConfigs ==
    {DictCfg(EmptyMap), NullCfg,
     DictCfg(Map1("crashProbability", IntVal(0))),
     DictCfg(Map1("crashProbability", IntVal(100))),
     DictCfg(Map1("crashProbability", StrVal)),
     DictCfg(Map1("crashIntervalMinutes", StrVal))}
DbFailConfigs ==
    {DictCfg(EmptyMap), NullCfg, DictCfg(Map1("failureRate", StrVal)),
     DictCfg(Map1("failureRate", IntVal(0))), DictCfg(Map1("failureRate", IntVal(100)))}
NetDelayConfigs ==
    {DictCfg(EmptyMap), NullCfg, DictCfg(Map1("jitterMs", StrVal)),
     DictCfg(Map2("delayMs", IntVal(2000), "jitterMs", IntVal(0))),
     DictCfg(Map2("delayMs", IntVal(100), "jitterMs", IntVal(500))),
     DictCfg(Map2("delayMs", IntVal(1), "jitterMs", IntVal(FullJitterUpTo)))}

EnabledReplies(configs) == {OkReply(FlagDict(TRUE, c)) : c \in configs}

\* ---------------------------------------------------------------- frames
NoVal == IntVal(0)
NoCfg == MissingCfg
FlagNames == {"infrastructure_disk_stress", "infrastructure_pod_crash",
              "infrastructure_db_connection_fail", "infrastructure_network_delay"}

\* held: the time (ms) the handler has slept inside check_and_apply_chaos.
\* rolled: the rolls _simulate_db_connection_fail has drawn for this request,
\* each with the failure_rate it was compared with.
ReqInit == [pc |-> "L48", config |-> NoCfg, a |-> NoVal, b |-> NoVal,
            fetched |-> {}, err |-> "none", held |-> 0, rolled |-> <<>>]
\* The worker called in place of Thread.start(): it has run to its end when
\* the call returns.
DiskFrameRanInline(pc, intensity, duration) ==
    [pc |-> "dead", intensity |-> intensity, duration |-> duration, i |-> 0, idx |-> 0,
     elapsed |-> 0]
DiskFrame(pc, intensity, duration) ==
    [pc |-> pc, intensity |-> intensity, duration |-> duration, i |-> 0, idx |-> 0,
     elapsed |-> 0]
DiskDead == DiskFrame("dead", NoVal, NoVal)
\* A scheduler that runs on the call-site defaults whatever its start read.
CrashFrameOnDefaults(pc, interval, prob) ==
    [pc |-> pc, interval |-> IntVal(DefaultCrashInterval),
     prob |-> IntVal(DefaultCrashProbability)]
\* crash_scheduler_worker: its position and the interval_minutes and
\* crash_probability its closure captured (lines 139-140).
CrashFrame(pc, interval, prob) == [pc |-> pc, interval |-> interval, prob |-> prob]
CrashDead == CrashFrame("dead", NoVal, NoVal)

\* threading.Thread.is_alive(): started and not yet finished.  A slot that
\* holds no running thread is "dead".
IsAlive(frame) == frame.pc # "dead"
\* The slot a new Thread object takes.
FreeSlots(thr) == {t \in Threads : ~IsAlive(thr[t])}
NewSlot(thr) == CHOOSE t \in FreeSlots(thr) : \A u \in FreeSlots(thr) : t <= u

Kinds == {"disk_stress", "pod_crash"}

\* The call of get_system_metrics: where it is, the position of the dict
\* iteration (i), the names collected so far (out), and the kinds whose flag
\* was true when the call was made (at_call), and the keys of the dict it is
\* building (keys).
MetricsIdle == [pc |-> "idle", i |-> 0, out |-> {}, at_call |-> {}, keys |-> {}]

\* The request at the fault injector: which service, where it is, the delay
\* injected so far (ms), the rate and the roll of its error check, the
\* exception the injector raised (fault), the exception now propagating
\* (exc), the HTTP status answered, and the last flag-client call made on
\* its behalf (reply, got).
NoGot == [exc |-> "none", flag |-> NoneFlag, enabled |-> FALSE, config |-> NoCfg]
\* What the request has done so far, in order (log): the route's call of the
\* infrastructure check, each lookup issued to the flag source, each injected
\* sleep, and the start of the business logic.
Event(ev, name, ms) == [ev |-> ev, name |-> name, ms |-> ms]
InfraCheck == Event("infra_check", "-", 0)
Lookup(name) == Event("lookup", name, 0)
Enabled(name) == Event("enabled", name, 0)      \* the `if` of a check was taken
Sleep(name, ms) == Event("sleep", name, ms)
Business == Event("business", "-", 0)

FiInit == [svc |-> "none", pc |-> "none", delay |-> 0, rate |-> NoVal, roll |-> -1,
           log |-> <<>>, done |-> {},
           fault |-> "none", exc |-> "none", status |-> 0,
           reply |-> StatusReply(404), got |-> NoGot]

InitProgram ==
    /\ active_simulations = [k \in Kinds |-> FALSE]
    /\ stop_disk_stress = FALSE
    /\ stop_crash_scheduler = FALSE
    /\ temp_files = <<>>
    /\ disk_stress_thread = 0
    /\ crash_scheduler_thread = 0
    /\ dthr = [t \in Threads |-> DiskDead]
    /\ cthr = [t \in Threads |-> CrashDead]
    /\ disk = {}
    /\ alive = TRUE
    /\ req = [r \in Reqs |-> ReqInit]
    /\ fi = FiInit
    /\ active_keys = <<>>
    /\ metrics = MetricsIdle

\* What the operator has switched on at the flag source: one background
\* stressor, or the two stressors that act on the request itself.  The disk
\* worker, the crash scheduler and the request-scoped stressors share no
\* variable: each writes only its own flag, signal, handle and frames.
\* In the last scenario the flag source answers every lookup of
\* infrastructure_network_delay with the flag enabled, {delayMs: 2000, jitterMs: 0}.
Scenarios ==
    {{k} : k \in Kinds}
    \cup {{"db_connection_fail", "network_delay"},
          {"db_connection_fail", "network_delay_fixed"}}
Init == InitProgram /\ switched_on \in Scenarios


\* ----------------------------------------- ChaosSimulator: request path
\* Handlers share one event loop: between two awaits a handler runs alone.
SyncPCs == {"L190", "L200", "L270", "L136", "L149", "L175"}
LoopFree(r) ==
    /\ metrics.pc = "idle"
    /\ \A q \in Reqs \ {r} : req[q].pc \notin SyncPCs

\* An exception e that leaves check_and_apply_chaos and fails the request.
Uncaught(f, e) == [f EXCEPT !.pc = "failed", !.config = NoCfg, !.a = NoVal, !.b = NoVal,
                            !.err = e]
\* except Exception (lines 74-76): e is logged, check_and_apply_chaos returns
\* and the route goes on to business logic.
Caught(f, e) == [f EXCEPT !.pc = "business", !.config = NoCfg, !.a = NoVal, !.b = NoVal,
                          !.err = e]
Exceptions == {"AttributeError", "TypeError", "ValueError", "Exception",
               "ConnectError", "JSONDecodeError", "TimeoutException"}
Goto(f, pc) == [f EXCEPT !.pc = pc, !.config = NoCfg, !.a = NoVal, !.b = NoVal]

\* `await flag_client.get_flag(name)` and the `if flag and flag.get("enabled")`
\* that follows: on to `start` with the flag's config, or on to `skip`.
CheckFlag(f, name, reply, start, skip) ==
    LET g == get_flag(reply)
        f1 == [f EXCEPT !.fetched = @ \cup {name}]
    IN  IF g.exc # "none" THEN Caught(f1, g.exc)
        ELSE IF Truthy(g.val) /\ g.val.enabled
             THEN [f1 EXCEPT !.pc = start, !.config = FlagConfigOrEmpty(g.val)]
             ELSE Goto(f1, skip)

\* `self.active_simulations[kind] = True`: a new key goes to the end of the dict.
Inserted(keys, kind) ==
    IF \E i \in DOMAIN keys : keys[i] = kind THEN keys ELSE Append(keys, kind)

\* "Check if already running" of a start request.
NeverRunning(kind) == FALSE
AlreadyRunning(kind) == active_simulations[kind]

\* "Start thread if not already running".
AnyThread(handle, thr) == TRUE
MayStartThread(handle, thr) == handle = 0 \/ ~IsAlive(thr[handle])

\* What the flag source may answer for a stressor's flag.
FixedNetDelay == DictCfg(Map2("delayMs", IntVal(2000), "jitterMs", IntVal(0)))
FlagReplies(kind, configs) ==
    IF kind = "network_delay" /\ "network_delay_fixed" \in switched_on
    THEN {OkReply(FlagDict(TRUE, FixedNetDelay))}
    ELSE AbsentReplies \cup (IF kind \in switched_on THEN EnabledReplies(configs) ELSE {})

\* Lines 52-54.
CheckDiskStress(r) ==
    /\ alive /\ req[r].pc = "L48" /\ LoopFree(r)
    /\ \E reply \in FlagReplies("disk_stress", DiskConfigs) :
          req' = [req EXCEPT ![r] =
                    CheckFlag(@, "infrastructure_disk_stress", reply, "L190", "L57")]
    /\ UNCHANGED <<active_simulations, stop_disk_stress, stop_crash_scheduler, temp_files,
                   disk_stress_thread, crash_scheduler_thread, dthr, cthr, disk, alive,
                   switched_on, fi,
                   active_keys, metrics>>

\* _simulate_disk_stress, lines 190-197.
DiskStressStart(r) ==
    /\ alive /\ req[r].pc = "L190"
    /\ IF AlreadyRunning("disk_stress")
       THEN /\ req' = [req EXCEPT ![r] = Goto(@, "L57")]
            /\ UNCHANGED <<active_simulations, active_keys>>
       ELSE IF CfgGetRaises(req[r].config)
       THEN /\ req' = [req EXCEPT ![r] = Caught(@, "AttributeError")]
            /\ UNCHANGED <<active_simulations, active_keys>>
       ELSE /\ req' = [req EXCEPT ![r].pc = "L200", ![r].config = NoCfg,
                          ![r].a = CfgGet(req[r].config, "intensityLevel", DefaultIntensity),
                          ![r].b = CfgGet(req[r].config, "durationSeconds", DefaultDuration)]
            /\ active_simulations' = [active_simulations EXCEPT !["disk_stress"] = TRUE]
            /\ active_keys' = Inserted(active_keys, "disk_stress")
    /\ UNCHANGED <<stop_disk_stress, stop_crash_scheduler, temp_files, disk_stress_thread,
                   crash_scheduler_thread, dthr, cthr, disk, alive, switched_on, fi,
                   metrics>>

\* A restart that leaves the stop event as it finds it.
DiskStressKeepsStop(r) ==
    /\ alive /\ req[r].pc = "L200"
    /\ req' = [req EXCEPT ![r].pc = "L270"]
    /\ UNCHANGED <<active_simulations, stop_disk_stress, stop_crash_scheduler, temp_files,
                   disk_stress_thread, crash_scheduler_thread, dthr, cthr, disk, alive,
                   switched_on, fi, active_keys, metrics>>

\* Line 200.
DiskStressClearStop(r) ==
    /\ alive /\ req[r].pc = "L200"
    /\ stop_disk_stress' = FALSE
    /\ req' = [req EXCEPT ![r].pc = "L270"]
    /\ UNCHANGED <<active_simulations, stop_crash_scheduler, temp_files, disk_stress_thread,
                   crash_scheduler_thread, dthr, cthr, disk, alive, switched_on, fi,
                   active_keys, metrics>>

\* Lines 270-272.
DiskStressSpawn(r) ==
    /\ alive /\ req[r].pc = "L270"
    /\ IF MayStartThread(disk_stress_thread, dthr)
       THEN /\ FreeSlots(dthr) # {}
            /\ disk_stress_thread' = NewSlot(dthr)
            /\ dthr' = [dthr EXCEPT ![NewSlot(dthr)] =
                          DiskFrame("L210", req[r].a, req[r].b)]
       ELSE UNCHANGED <<disk_stress_thread, dthr>>
    /\ req' = [req EXCEPT ![r] = Goto(@, "L57")]
    /\ UNCHANGED <<active_simulations, stop_disk_stress, stop_crash_scheduler, temp_files,
                   crash_scheduler_thread, cthr, disk, alive, switched_on, fi,
                   active_keys, metrics>>

\* Lines 57-62.
CheckPodCrash(r) ==
    /\ alive /\ req[r].pc = "L57" /\ LoopFree(r)
    /\ \E reply \in FlagReplies("pod_crash", CrashConfigs) :
          req' = [req EXCEPT ![r] =
                    CheckFlag(@, "infrastructure_pod_crash", reply, "L136", "L65")]
    /\ UNCHANGED <<active_simulations, stop_disk_stress, stop_crash_scheduler, temp_files,
                   disk_stress_thread, crash_scheduler_thread, dthr, cthr, disk, alive,
                   switched_on, fi,
                   active_keys, metrics>>

\* _simulate_pod_crash, lines 136-146.
PodCrashStart(r) ==
    /\ alive /\ req[r].pc = "L136"
    /\ IF AlreadyRunning("pod_crash")
       THEN /\ req' = [req EXCEPT ![r] = Goto(@, "L65")]
            /\ UNCHANGED <<active_simulations, active_keys>>
       ELSE IF CfgGetRaises(req[r].config)
       THEN /\ req' = [req EXCEPT ![r] = Caught(@, "AttributeError")]
            /\ UNCHANGED <<active_simulations, active_keys>>
       ELSE /\ req' = [req EXCEPT ![r].pc = "L149", ![r].config = NoCfg,
                          ![r].a = CfgGet(req[r].config, "crashIntervalMinutes",
                                          DefaultCrashInterval),
                          ![r].b = CfgGet(req[r].config, "crashProbability",
                                          DefaultCrashProbability)]
            /\ active_simulations' = [active_simulations EXCEPT !["pod_crash"] = TRUE]
            /\ active_keys' = Inserted(active_keys, "pod_crash")
    /\ UNCHANGED <<stop_disk_stress, stop_crash_scheduler, temp_files, disk_stress_thread,
                   crash_scheduler_thread, dthr, cthr, disk, alive, switched_on, fi,
                   metrics>>

\* Line 149.
PodCrashClearStop(r) ==
    /\ alive /\ req[r].pc = "L149"
    /\ stop_crash_scheduler' = FALSE
    /\ req' = [req EXCEPT ![r].pc = "L175"]
    /\ UNCHANGED <<active_simulations, stop_disk_stress, temp_files, disk_stress_thread,
                   crash_scheduler_thread, dthr, cthr, disk, alive, switched_on, fi,
                   active_keys, metrics>>

\* Lines 175-180.
PodCrashSpawn(r) ==
    /\ alive /\ req[r].pc = "L175"
    /\ IF MayStartThread(crash_scheduler_thread, cthr)
       THEN /\ FreeSlots(cthr) # {}
            /\ crash_scheduler_thread' = NewSlot(cthr)
            /\ cthr' = [cthr EXCEPT ![NewSlot(cthr)] =
                          CrashFrame("L156", req[r].a, req[r].b)]
       ELSE UNCHANGED <<crash_scheduler_thread, cthr>>
    /\ req' = [req EXCEPT ![r] = Goto(@, "L65")]
    /\ UNCHANGED <<active_simulations, stop_disk_stress, stop_crash_scheduler, temp_files,
                   disk_stress_thread, dthr, disk, alive, switched_on, fi,
                   active_keys, metrics>>

\* random.randint(1, 100)
Rolls == RollLow..RollHigh

\* random.randint(1, 100) (line 111): the two ends of the range and the two
\* rolls next to failure_rate.
DbRollDraws(config) ==
    LET failure_rate == CfgGet(config, "failureRate", DefaultDbFailureRate) IN
    {RollLow, RollHigh} \cup
    (IF IsInt(failure_rate) THEN {failure_rate.n, failure_rate.n + 1} \cap Rolls ELSE {})

\* A comparison that leaves the roll equal to failure_rate out.
DbFailOutcomeStrict(config, roll) ==
    IF CfgGetRaises(config) THEN "AttributeError"
    ELSE LET failure_rate == CfgGet(config, "failureRate", DefaultDbFailureRate) IN
         IF ~IsInt(failure_rate) THEN "TypeError"
         ELSE IF roll < failure_rate.n THEN "L118" ELSE "L70"

\* _simulate_db_connection_fail up to the roll (lines 107-111): the pc it leads to.
DbFailOutcome(config, roll) ==
    IF CfgGetRaises(config) THEN "AttributeError"
    ELSE LET failure_rate == CfgGet(config, "failureRate", DefaultDbFailureRate) IN
         IF ~IsInt(failure_rate) THEN "TypeError"      \* int <= str
         ELSE IF roll <= failure_rate.n THEN "L118" ELSE "L70"

\* Lines 65-67 and 107-111.
CheckDbConnectionFail(r) ==
    /\ alive /\ req[r].pc = "L65" /\ LoopFree(r)
    /\ \E reply \in FlagReplies("db_connection_fail", DbFailConfigs) :
          LET f == CheckFlag(req[r], "infrastructure_db_connection_fail", reply,
                             "L107", "L70")
          IN IF f.pc # "L107" THEN req' = [req EXCEPT ![r] = f]
             ELSE IF CfgGetRaises(f.config)
             THEN req' = [req EXCEPT ![r] = Caught(f, "AttributeError")]
             ELSE \E roll \in DbRollDraws(f.config) :
                LET o == DbFailOutcome(f.config, roll)
                    g == [f EXCEPT !.rolled = Append(@,
                            [roll |-> roll,
                             rate |-> CfgGet(f.config, "failureRate",
                                             DefaultDbFailureRate)])]
                IN req' = [req EXCEPT ![r] =
                             IF o \in Exceptions THEN Caught(g, o)
                             ELSE IF o = "L118"
                             THEN [Goto(g, o) EXCEPT !.a = CfgGet(f.config, "timeoutMs",
                                                                  DefaultDbTimeoutMs)]
                             ELSE Goto(g, o)]
    /\ UNCHANGED <<active_simulations, stop_disk_stress, stop_crash_scheduler, temp_files,
                   disk_stress_thread, crash_scheduler_thread, dthr, cthr, disk, alive,
                   switched_on, fi,
                   active_keys, metrics>>

\* Lines 118-121: the timeout sleep ends and the failure is raised, into line 74.
DbConnectionFailRaise(r) ==
    /\ alive /\ req[r].pc = "L118" /\ LoopFree(r)
    /\ req' = [req EXCEPT ![r] =
                 IF ~IsInt(@.a) THEN Caught(@, "TypeError")       \* str / float
                 ELSE Caught([@ EXCEPT !.held = @ + req[r].a.n], "Exception")]
    /\ UNCHANGED <<active_simulations, stop_disk_stress, stop_crash_scheduler, temp_files,
                   disk_stress_thread, crash_scheduler_thread, dthr, cthr, disk, alive,
                   switched_on, fi,
                   active_keys, metrics>>

\* random.randint(-jitter_ms, jitter_ms) (line 89): every value of a small
\* range; the two ends and the middle of a large one.
JitterDraws(jitter_ms) ==
    IF jitter_ms <= FullJitterUpTo THEN (-jitter_ms)..jitter_ms
    ELSE {-jitter_ms, 0, jitter_ms}

Max(x, y) == IF x > y THEN x ELSE y

\* actual_delay_ms without the max(0, ...) of line 90.
ActualDelayUnclamped(config, jitter) ==
    CfgGet(config, "delayMs", DefaultNetDelayMs).n + jitter

\* Lines 85-90: actual_delay_ms.
ActualDelayMs(config, jitter) ==
    Max(0, CfgGet(config, "delayMs", DefaultNetDelayMs).n + jitter)

\* _simulate_network_delay up to the sleep (lines 85-90).
NetDelayOutcome(config) ==
    IF CfgGetRaises(config) THEN "AttributeError"
    ELSE LET delay_ms == CfgGet(config, "delayMs", DefaultNetDelayMs)
             jitter_ms == CfgGet(config, "jitterMs", DefaultNetJitterMs)
         IN IF ~IsInt(jitter_ms) \/ ~IsInt(delay_ms) THEN "TypeError"
            ELSE IF jitter_ms.n < 0 THEN "ValueError"    \* randint: empty range
            ELSE "L95"

\* Lines 70-72 and 85-90.
CheckNetworkDelay(r) ==
    /\ alive /\ req[r].pc = "L70" /\ LoopFree(r)
    /\ \E reply \in FlagReplies("network_delay", NetDelayConfigs) :
          LET f == CheckFlag(req[r], "infrastructure_network_delay", reply,
                             "L85", "business")
              o == NetDelayOutcome(f.config)
          IN IF f.pc # "L85" THEN req' = [req EXCEPT ![r] = f]
             ELSE IF o \in Exceptions THEN req' = [req EXCEPT ![r] = Caught(f, o)]
             ELSE \E jitter \in JitterDraws(CfgGet(f.config, "jitterMs",
                                                   DefaultNetJitterMs).n) :
                     req' = [req EXCEPT ![r] =
                               [f EXCEPT !.pc = o,
                                         !.a = IntVal(ActualDelayMs(f.config, jitter))]]
    /\ UNCHANGED <<active_simulations, stop_disk_stress, stop_crash_scheduler, temp_files,
                   disk_stress_thread, crash_scheduler_thread, dthr, cthr, disk, alive,
                   switched_on, fi,
                   active_keys, metrics>>

\* Line 95: the delay ends; check_and_apply_chaos returns.
NetworkDelaySleep(r) ==
    /\ alive /\ req[r].pc = "L95" /\ LoopFree(r)
    /\ req' = [req EXCEPT ![r] = Goto([@ EXCEPT !.held = @ + req[r].a.n], "business")]
    /\ UNCHANGED <<active_simulations, stop_disk_stress, stop_crash_scheduler, temp_files,
                   disk_stress_thread, crash_scheduler_thread, dthr, cthr, disk, alive,
                   switched_on, fi,
                   active_keys, metrics>>


\* --------------------------------------------------- disk_stress_worker
Min(x, y) == IF x < y THEN x ELSE y

\* self.stop_disk_stress.is_set() as the worker reads it (lines 211, 233, 238).
DiskStopNeverSeen == FALSE
DiskStopSeen == stop_disk_stress

\* A finally block that goes straight to temp_files.clear().
DiskFinallySkipsCleanup(f) == [f EXCEPT !.pc = "L265", !.idx = 0]
\* Into the finally block (line 256).
DiskFinally(f) == [f EXCEPT !.pc = "L258", !.idx = 0]

\* A creation loop that makes one round too many.
CreationDoneLate(f) == f.i > f.intensity.n
\* `for i in range(num_files)` is exhausted (line 210).
CreationDone(f) == f.i >= f.intensity.n

\* Lines 210-215: next round of the creation loop.
DiskCreateNext(t) ==
    /\ alive /\ dthr[t].pc = "L210"
    /\ IF ~IsInt(dthr[t].intensity)                 \* range(num_files): TypeError
       THEN /\ dthr' = [dthr EXCEPT ![t] = DiskFinally(@)]
            /\ UNCHANGED temp_files
       ELSE IF CreationDone(dthr[t]) \/ DiskStopSeen
       THEN /\ dthr' = [dthr EXCEPT ![t].pc = "L232"]
            /\ UNCHANGED temp_files
       ELSE /\ temp_files' = Append(temp_files, dthr[t].i)
            /\ dthr' = [dthr EXCEPT ![t].pc = "L219"]
    /\ UNCHANGED <<active_simulations, stop_disk_stress, stop_crash_scheduler,
                   disk_stress_thread, crash_scheduler_thread, cthr, disk, alive, req,
                   switched_on, fi,
                   active_keys, metrics>>

\* What the I/O on one temp file does: it succeeds, or it raises an
\* exception (OSError, MemoryError, ...).
IoOutcomes == {"ok", "error"}

\* An I/O error that is not caught per file: it ends the try block.
IoErrorIsFatal(f, io, next) == IF io = "error" THEN DiskFinally(f) ELSE next
\* `except Exception as e: logger.warning(...)` around the I/O on one file
\* (lines 228-229, 251-252): the frame the worker goes on with.
AfterFileIo(f, io, next) == next

\* Lines 217-229: write, flush and read back one file.  An I/O error is
\* logged; the file may or may not have been created by then.  Time passes.
DiskCreateWrite(t) ==
    /\ alive /\ dthr[t].pc = "L219"
    /\ \E io \in IoOutcomes, created \in BOOLEAN, dt \in 0..1 :
          /\ io = "ok" => created
          /\ disk' = IF created THEN disk \cup {dthr[t].i} ELSE disk
          /\ dthr' = [dthr EXCEPT ![t] =
                        AfterFileIo(@, io,
                                    [@ EXCEPT !.pc = "L210", !.i = @ + 1,
                                              !.elapsed = Min(@ + dt, MaxDuration)])]
    /\ UNCHANGED <<active_simulations, stop_disk_stress, stop_crash_scheduler, temp_files,
                   disk_stress_thread, crash_scheduler_thread, cthr, alive, req,
                   switched_on, fi,
                   active_keys, metrics>>

\* A clock that never reaches the duration.
DurationNeverOver(f) == TRUE
\* `while time.time() - start_time < duration` (line 232).
DurationLeft(f) == f.elapsed < f.duration.n

\* Lines 232-234.
DiskLoopCheck(t) ==
    /\ alive /\ dthr[t].pc = "L232"
    /\ dthr' = [dthr EXCEPT ![t] =
                  IF ~IsInt(@.duration) THEN DiskFinally(@)       \* float < str: TypeError
                  ELSE IF ~DurationLeft(@) \/ DiskStopSeen THEN DiskFinally(@)
                  ELSE [@ EXCEPT !.pc = "L237", !.idx = 0]]
    /\ UNCHANGED <<active_simulations, stop_disk_stress, stop_crash_scheduler, temp_files,
                   disk_stress_thread, crash_scheduler_thread, cthr, disk, alive, req,
                   switched_on, fi,
                   active_keys, metrics>>

\* Lines 237-252: next file of a read/append cycle; its I/O errors are logged.
DiskCycleNext(t) ==
    /\ alive /\ dthr[t].pc = "L237"
    /\ \E io \in IoOutcomes :
          dthr' = [dthr EXCEPT ![t] =
                     IF @.idx >= Len(temp_files) \/ DiskStopSeen
                     THEN [@ EXCEPT !.pc = "L254"]
                     ELSE AfterFileIo(@, io, [@ EXCEPT !.idx = @ + 1])]
    /\ UNCHANGED <<active_simulations, stop_disk_stress, stop_crash_scheduler, temp_files,
                   disk_stress_thread, crash_scheduler_thread, cthr, disk, alive, req,
                   switched_on, fi,
                   active_keys, metrics>>

\* Line 254: the pacing delay, one unit of time.
DiskSleep(t) ==
    /\ alive /\ dthr[t].pc = "L254"
    /\ dthr' = [dthr EXCEPT ![t].pc = "L232", ![t].elapsed = Min(@ + 1, MaxDuration)]
    /\ UNCHANGED <<active_simulations, stop_disk_stress, stop_crash_scheduler, temp_files,
                   disk_stress_thread, crash_scheduler_thread, cthr, disk, alive, req,
                   switched_on, fi,
                   active_keys, metrics>>

\* Lines 258-263: remove the next listed file if it exists.
DiskCleanupNext(t) ==
    /\ alive /\ dthr[t].pc = "L258"
    /\ IF dthr[t].idx >= Len(temp_files)
       THEN /\ dthr' = [dthr EXCEPT ![t].pc = "L265"]
            /\ UNCHANGED disk
       ELSE /\ disk' = disk \ {temp_files[dthr[t].idx + 1]}
            /\ dthr' = [dthr EXCEPT ![t].idx = @ + 1]
    /\ UNCHANGED <<active_simulations, stop_disk_stress, stop_crash_scheduler, temp_files,
                   disk_stress_thread, crash_scheduler_thread, cthr, alive, req,
                   switched_on, fi,
                   active_keys, metrics>>

\* Line 265.
DiskClearList(t) ==
    /\ alive /\ dthr[t].pc = "L265"
    /\ temp_files' = <<>>
    /\ dthr' = [dthr EXCEPT ![t].pc = "L266"]
    /\ UNCHANGED <<active_simulations, stop_disk_stress, stop_crash_scheduler,
                   disk_stress_thread, crash_scheduler_thread, cthr, disk, alive, req,
                   switched_on, fi,
                   active_keys, metrics>>

\* Line 266.
DiskResetActive(t) ==
    /\ alive /\ dthr[t].pc = "L266"
    /\ active_simulations' = [active_simulations EXCEPT !["disk_stress"] = FALSE]
    /\ dthr' = [dthr EXCEPT ![t].pc = "L267"]
    /\ UNCHANGED <<stop_disk_stress, stop_crash_scheduler, temp_files, disk_stress_thread,
                   crash_scheduler_thread, cthr, disk, alive, req, switched_on, fi,
                   active_keys, metrics>>

\* Line 267 and the end of the thread: is_alive() turns false.
DiskExit(t) ==
    /\ alive /\ dthr[t].pc = "L267"
    /\ dthr' = [dthr EXCEPT ![t] = DiskDead]
    /\ UNCHANGED <<active_simulations, stop_disk_stress, stop_crash_scheduler, temp_files,
                   disk_stress_thread, crash_scheduler_thread, cthr, disk, alive, req,
                   switched_on, fi,
                   active_keys, metrics>>

\* ------------------------------------------------ crash_scheduler_worker
\* A scheduler that also ends when its flag is no longer switched on.
CrashStopOrFlagOff == stop_crash_scheduler \/ "pod_crash" \notin switched_on
\* `while not self.stop_crash_scheduler.is_set()` (line 156).
CrashStopSeen == stop_crash_scheduler

\* Line 156.
CrashLoopCheck(t) ==
    /\ alive /\ cthr[t].pc = "L156"
    /\ cthr' = [cthr EXCEPT ![t].pc = IF CrashStopSeen THEN "L171" ELSE "L158"]
    /\ UNCHANGED <<active_simulations, stop_disk_stress, stop_crash_scheduler, temp_files,
                   disk_stress_thread, crash_scheduler_thread, dthr, disk, alive, req,
                   switched_on, fi,
                   active_keys, metrics>>

\* A wait that sleeps the interval out whatever the stop event does.
CrashWaitIgnoresStop(interval, stop) ==
    IF ~IsInt(interval) THEN "L171" ELSE "L162"

\* `if self.stop_crash_scheduler.wait(timeout=interval_seconds): break`
\* (lines 158-159): where the end of the wait leads.
CrashWaitOutcome(interval, stop) ==
    IF ~IsInt(interval) THEN "L171"     \* wait(timeout=str): TypeError
    ELSE IF stop THEN "L171"
    ELSE "L162"

\* Lines 158-159: the wait ends, by the stop event or by the interval.
CrashWait(t) ==
    /\ alive /\ cthr[t].pc = "L158"
    /\ cthr' = [cthr EXCEPT ![t].pc =
                  CrashWaitOutcome(cthr[t].interval, stop_crash_scheduler)]
    /\ UNCHANGED <<active_simulations, stop_disk_stress, stop_crash_scheduler, temp_files,
                   disk_stress_thread, crash_scheduler_thread, dthr, disk, alive, req,
                   switched_on, fi,
                   active_keys, metrics>>

\* A termination that unwinds the stack (sys.exit) instead of os._exit.
CrashRollUnwinds(prob, roll) ==
    IF ~IsInt(prob) THEN "L171"
    ELSE IF roll <= prob.n THEN "L171" ELSE "L156"

\* `random.randint(1, 100) <= crash_probability` (line 162): where it leads.
CrashRollOutcome(prob, roll) ==
    IF ~IsInt(prob) THEN "L171"                   \* int <= str: TypeError
    ELSE IF roll <= prob.n THEN "exit" ELSE "L156"

\* Lines 162-168: the roll; os._exit(1) ends the process with every thread in it.
CrashRoll(t) ==
    /\ alive /\ cthr[t].pc = "L162"
    /\ \E o \in {CrashRollOutcome(cthr[t].prob, roll) : roll \in Rolls} :
          IF o = "exit"
          THEN alive' = FALSE /\ UNCHANGED cthr
          ELSE cthr' = [cthr EXCEPT ![t].pc = o] /\ UNCHANGED alive
    /\ UNCHANGED <<active_simulations, stop_disk_stress, stop_crash_scheduler, temp_files,
                   disk_stress_thread, crash_scheduler_thread, dthr, disk, req,
                   switched_on, fi,
                   active_keys, metrics>>

\* Line 171.
CrashResetActive(t) ==
    /\ alive /\ cthr[t].pc = "L171"
    /\ active_simulations' = [active_simulations EXCEPT !["pod_crash"] = FALSE]
    /\ cthr' = [cthr EXCEPT ![t].pc = "L172"]
    /\ UNCHANGED <<stop_disk_stress, stop_crash_scheduler, temp_files, disk_stress_thread,
                   crash_scheduler_thread, dthr, disk, alive, req, switched_on, fi,
                   active_keys, metrics>>

\* Line 172 and the end of the thread.
CrashExit(t) ==
    /\ alive /\ cthr[t].pc = "L172"
    /\ cthr' = [cthr EXCEPT ![t] = CrashDead]
    /\ UNCHANGED <<active_simulations, stop_disk_stress, stop_crash_scheduler, temp_files,
                   disk_stress_thread, crash_scheduler_thread, dthr, disk, alive, req,
                   switched_on, fi,
                   active_keys, metrics>>

\* ------------------------------------------------------ the stop signals
\* threading.Event.set() on a stressor's stop event, by whoever holds the
\* simulator (its owner, an operator hook, a test).
SignalStopDisk ==
    /\ alive /\ ~stop_disk_stress
    /\ stop_disk_stress' = TRUE
    /\ UNCHANGED <<active_simulations, stop_crash_scheduler, temp_files, disk_stress_thread,
                   crash_scheduler_thread, dthr, cthr, disk, alive, req, switched_on, fi,
                   active_keys, metrics>>

SignalStopCrash ==
    /\ alive /\ ~stop_crash_scheduler
    /\ stop_crash_scheduler' = TRUE
    /\ UNCHANGED <<active_simulations, stop_disk_stress, temp_files, disk_stress_thread,
                   crash_scheduler_thread, dthr, cthr, disk, alive, req, switched_on, fi,
                   active_keys, metrics>>

\* ---------------------------------------------------------- specification
\* routes.py: the handler goes on to business logic and answers; the next
\* request takes its place.
Respond(r) ==
    /\ alive /\ req[r].pc = "business" /\ LoopFree(r)
    /\ req' = [req EXCEPT ![r] = ReqInit]
    /\ UNCHANGED <<active_simulations, stop_disk_stress, stop_crash_scheduler, temp_files,
                   disk_stress_thread, crash_scheduler_thread, dthr, cthr, disk, alive,
                   switched_on, fi,
                   active_keys, metrics>>

RequestStep(r) ==
    \/ Respond(r)
    \/ CheckDiskStress(r) \/ DiskStressStart(r) \/ DiskStressClearStop(r)
    \/ DiskStressSpawn(r)
    \/ CheckPodCrash(r) \/ PodCrashStart(r) \/ PodCrashClearStop(r) \/ PodCrashSpawn(r)
    \/ CheckDbConnectionFail(r) \/ DbConnectionFailRaise(r)
    \/ CheckNetworkDelay(r) \/ NetworkDelaySleep(r)

DiskWorkerStep(t) ==
    \/ DiskCreateNext(t) \/ DiskCreateWrite(t) \/ DiskLoopCheck(t) \/ DiskCycleNext(t)
    \/ DiskSleep(t) \/ DiskCleanupNext(t) \/ DiskClearList(t) \/ DiskResetActive(t)
    \/ DiskExit(t)

CrashWorkerStep(t) ==
    \/ CrashLoopCheck(t) \/ CrashWait(t) \/ CrashRoll(t) \/ CrashResetActive(t)
    \/ CrashExit(t)

Next ==
    \/ \E r \in Reqs : RequestStep(r)
    \/ \E t \in Threads : DiskWorkerStep(t)
    \/ \E t \in Threads : CrashWorkerStep(t)
    \/ SignalStopDisk
    \/ SignalStopCrash

Spec == Init /\ [][Next]_vars

\* --------------------------------------- FailureSimulator and the routes
DefaultLatencyMs == 1000
DefaultErrorRate == 30
DefaultSlowQueryMs == 500
DefaultCheckoutFailureRate == 50
InjectorRollLow == 0
InjectorRollHigh == 100
\* random.randint(0, 100)
InjectorRolls == InjectorRollLow..InjectorRollHigh

\* Everything the flag source can do with a lookup of a flag whose healthy
\* configs are `configs`.
BrokenReplies ==
    {TimeoutReply, ConnectErrorReply, StatusReply(404), StatusReply(500),
     BadBodyReply("unparsable"), BadBodyReply("null"), BadBodyReply("list")}
MalformedConfigs == {MissingCfg, NullCfg, ListCfg}
SourceReplies(configs) ==
    BrokenReplies
    \cup {OkReply(FlagDict(e, c)) : e \in BOOLEAN, c \in configs \cup MalformedConfigs}

LatencyConfigs == {DictCfg(EmptyMap), DictCfg(Map1("latencyMs", IntVal(100))),
                   DictCfg(Map1("latencyMs", StrVal)),
                   DictCfg(Map1("latencyMs", IntVal(-100))),
                   DictCfg(Map2("latencyMs", IntVal(100), "jitterMs", IntVal(50)))}
ErrorRateConfigs == {DictCfg(EmptyMap), DictCfg(Map1("errorRate", StrVal))}
                    \cup {DictCfg(Map1("errorRate", IntVal(n))) : n \in {0, 50, 100}}
SlowQueryConfigs == {DictCfg(EmptyMap), DictCfg(Map1("delayMs", IntVal(200))),
                     DictCfg(Map1("delayMs", StrVal))}
CheckoutFailureConfigs == {DictCfg(EmptyMap), DictCfg(Map1("failureRate", StrVal))}
                          \cup {DictCfg(Map1("failureRate", IntVal(n))) : n \in {0, 50, 100}}

FiUnchanged ==
    UNCHANGED <<active_simulations, stop_disk_stress, stop_crash_scheduler, temp_files,
                disk_stress_thread, crash_scheduler_thread, dthr, cthr, disk, alive, req,
                switched_on, active_keys, metrics>>

\* A direct caller of the flag client: get_flag, is_flag_enabled and
\* get_flag_config on one answer of the flag source.
FlagClientCall ==
    /\ fi.pc = "none"
    /\ \E reply \in SourceReplies(LatencyConfigs) :
          fi' = [FiInit EXCEPT !.svc = "flag_client", !.pc = "responded", !.reply = reply,
                    !.got = [exc |-> IF get_flag(reply).exc # "none" THEN get_flag(reply).exc
                                     ELSE IF is_flag_enabled(reply).exc # "none"
                                          THEN is_flag_enabled(reply).exc
                                     ELSE get_flag_config(reply).exc,
                             flag |-> get_flag(reply).val,
                             enabled |-> is_flag_enabled(reply).val,
                             config |-> get_flag_config(reply).val]]
    /\ FiUnchanged

\* A request enters get_products (catalog routes.py line 24) or
\* process_checkout (checkout routes.py line 47).
RequestArrives ==
    /\ fi.pc = "none"
    /\ \E svc \in {"catalog", "checkout"} : fi' = [FiInit EXCEPT !.svc = svc, !.pc = "route"]
    /\ FiUnchanged

\* A process_checkout that has created the order when it makes the check.
OrderBeforeCheck == {"cart_validated", "order", "order_items"}
\* What process_checkout has done for the request when it calls
\* check_and_apply_failures: the check is its first step (checkout_service.py
\* lines 43-45).
EffectsBeforeCheck == {}

\* The route calls check_and_apply_chaos (catalog routes.py line 48, checkout
\* routes.py lines 68-71); with no infrastructure flag switched on it returns
\* without effect.  The route then calls ProductRepository.get_all (line 51),
\* which starts with check_and_apply_failures (repository.py line 41), or
\* CheckoutService.process_checkout (line 78), which starts with it too
\* (checkout_service.py line 45).
RouteInfraCheck ==
    /\ fi.pc = "route"
    /\ fi' = [fi EXCEPT !.pc = IF fi.svc = "catalog" THEN "F49" ELSE "X42",
                        !.done = IF fi.svc = "checkout" THEN EffectsBeforeCheck ELSE @,
                        !.log = Append(@, InfraCheck)]
    /\ FiUnchanged

\* An exception e leaves check_and_apply_failures.
InjectorRaise(f, e) == [f EXCEPT !.pc = "raised", !.fault = e, !.exc = e]

\* `if await feature_flag_client.is_flag_enabled(flag_name)`.
IfFlagEnabled(f, name, reply, then, else) ==
    LET e == is_flag_enabled(reply)
        f1 == [f EXCEPT !.reply = reply, !.log = Append(@, Lookup(name))]
    IN  IF e.exc # "none" THEN InjectorRaise(f1, e.exc)
        ELSE IF e.val THEN [f1 EXCEPT !.pc = then, !.log = Append(@, Enabled(name))]
        ELSE [f1 EXCEPT !.pc = else]

\* asyncio.sleep(ms / 1000.0): a delay that is not positive returns at once.
Slept(ms) == IF ms > 0 THEN ms ELSE 0

\* A delay check that forgets the delay already injected.
InjectDelayOverwrites(f, name, reply, key, default, next) ==
    LET c == get_flag_config(reply)
        f1 == [f EXCEPT !.reply = reply, !.log = Append(@, Lookup(name))]
    IN  IF c.exc # "none" THEN InjectorRaise(f1, c.exc)
        ELSE IF CfgGetRaises(c.val) THEN InjectorRaise(f1, "AttributeError")
        ELSE LET v == CfgGet(c.val, key, default) IN
             IF ~IsInt(v) THEN InjectorRaise(f1, "TypeError")
             ELSE [f1 EXCEPT !.pc = next, !.delay = Slept(v.n),
                             !.log = Append(@, Sleep(name, Slept(v.n)))]

\* `config = await get_flag_config(flag_name)`, `config.get(key, default)` and
\* the sleep of `value / 1000.0` seconds.
InjectDelay(f, name, reply, key, default, next) ==
    LET c == get_flag_config(reply)
        f1 == [f EXCEPT !.reply = reply, !.log = Append(@, Lookup(name))]
    IN  IF c.exc # "none" THEN InjectorRaise(f1, c.exc)
        ELSE IF CfgGetRaises(c.val) THEN InjectorRaise(f1, "AttributeError")
        ELSE LET v == CfgGet(c.val, key, default) IN
             IF ~IsInt(v) THEN InjectorRaise(f1, "TypeError")       \* str / float
             ELSE [f1 EXCEPT !.pc = next, !.delay = @ + Slept(v.n),
                             !.log = Append(@, Sleep(name, Slept(v.n)))]

\* `random.randint(0, 100) < rate`
RollHits(roll, rate) == roll < rate

\* `config = await get_flag_config(flag_name)`, the rate, the roll, and the
\* SimulatedError when the roll is under the rate.
InjectError(f, name, reply, key, default, roll, next) ==
    LET c == get_flag_config(reply)
        f1 == [f EXCEPT !.reply = reply, !.log = Append(@, Lookup(name))]
    IN  IF c.exc # "none" THEN InjectorRaise(f1, c.exc)
        ELSE IF CfgGetRaises(c.val) THEN InjectorRaise(f1, "AttributeError")
        ELSE LET v == CfgGet(c.val, key, default) IN
             IF ~IsInt(v) THEN InjectorRaise(f1, "TypeError")       \* int < str
             ELSE IF RollHits(roll, v.n)
                  THEN InjectorRaise([f1 EXCEPT !.rate = v, !.roll = roll], "SimulatedError")
                  ELSE [f1 EXCEPT !.pc = next, !.rate = v, !.roll = roll]

\* catalog failure_simulator.py line 49.
CatalogLatencyEnabled ==
    /\ fi.pc = "F49"
    /\ \E reply \in SourceReplies(LatencyConfigs) : 
          fi' = IfFlagEnabled(fi, "catalog_high_latency", reply, "F50", "F63")
    /\ FiUnchanged

\* Lines 50-57.
CatalogLatencyApply ==
    /\ fi.pc = "F50"
    /\ \E reply \in SourceReplies(LatencyConfigs) :
          fi' = InjectDelay(fi, "catalog_high_latency", reply, "latencyMs",
                            DefaultLatencyMs, "F63")
    /\ FiUnchanged

\* Line 63.
CatalogErrorEnabled ==
    /\ fi.pc = "F63"
    /\ \E reply \in SourceReplies(ErrorRateConfigs) : 
          fi' = IfFlagEnabled(fi, "catalog_error_rate", reply, "F64", "F80")
    /\ FiUnchanged

\* Lines 64-74.
CatalogErrorRoll ==
    /\ fi.pc = "F64"
    /\ \E reply \in SourceReplies(ErrorRateConfigs), roll \in InjectorRolls :
          fi' = InjectError(fi, "catalog_error_rate", reply, "errorRate",
                            DefaultErrorRate, roll, "F80")
    /\ FiUnchanged

\* Line 80.
CatalogSlowEnabled ==
    /\ fi.pc = "F80"
    /\ \E reply \in SourceReplies(SlowQueryConfigs) : 
          fi' = IfFlagEnabled(fi, "database_slow_queries", reply, "F81", "R44")
    /\ FiUnchanged

\* Lines 81-88.
CatalogSlowApply ==
    /\ fi.pc = "F81"
    /\ \E reply \in SourceReplies(SlowQueryConfigs) :
          fi' = InjectDelay(fi, "database_slow_queries", reply, "delayMs",
                            DefaultSlowQueryMs, "R44")
    /\ FiUnchanged

\* repository.py lines 44-49 and routes.py lines 53-56: the query and the answer.
CatalogQuery ==
    /\ fi.svc = "catalog" /\ fi.pc = "R44"
    /\ fi' = [fi EXCEPT !.pc = "responded", !.status = 200, !.log = Append(@, Business)]
    /\ FiUnchanged

\* What the catalog route answers to an exception (routes.py lines 58-68);
\* the repository re-raises it unchanged (repository.py lines 51-55).
CatalogStatus(exc) == IF exc = "SimulatedError" THEN 503 ELSE 500

CatalogRespondError ==
    /\ fi.svc = "catalog" /\ fi.pc = "raised"
    /\ fi' = [fi EXCEPT !.pc = "responded", !.status = CatalogStatus(fi.exc)]
    /\ FiUnchanged

\* checkout failure_simulator.py line 42.
CheckoutFailureEnabled ==
    /\ fi.pc = "X42"
    /\ \E reply \in SourceReplies(CheckoutFailureConfigs) :
          fi' = IfFlagEnabled(fi, "checkout_failure", reply, "X43", "S48")
    /\ FiUnchanged

\* Lines 43-53.
CheckoutFailureRoll ==
    /\ fi.pc = "X43"
    /\ \E reply \in SourceReplies(CheckoutFailureConfigs), roll \in InjectorRolls :
          fi' = InjectError(fi, "checkout_failure", reply, "failureRate",
                            DefaultCheckoutFailureRate, roll, "S48")
    /\ FiUnchanged

\* checkout_service.py lines 47-51: the business logic starts with the cart,
\* built from the request's items or fetched from the cart service; an empty
\* or unreachable cart raises CheckoutError.
CheckoutBusiness ==
    /\ fi.svc = "checkout" /\ fi.pc = "S48"
    /\ \/ fi' = [fi EXCEPT !.pc = "S54", !.done = @ \cup {"cart_validated"},
                           !.log = Append(@, Business)]
       \/ fi' = [fi EXCEPT !.pc = "raised", !.exc = "CheckoutError",
                           !.log = Append(@, Business)]
    /\ FiUnchanged

\* Line 54, _create_order (lines 169-222): the order and its items are added
\* and committed, or the database fails, the session is rolled back and the
\* exception goes on.
CheckoutCreateOrder ==
    /\ fi.svc = "checkout" /\ fi.pc = "S54"
    /\ \/ fi' = [fi EXCEPT !.pc = "S57", !.done = @ \cup {"order", "order_items"}]
       \/ fi' = [fi EXCEPT !.pc = "raised", !.exc = "CheckoutError"]
    /\ FiUnchanged

\* Line 57, _process_payment (lines 224-243).
CheckoutPayment ==
    /\ fi.svc = "checkout" /\ fi.pc = "S57"
    /\ fi' = [fi EXCEPT !.pc = "S60", !.done = @ \cup {"payment"}]
    /\ FiUnchanged

\* Lines 60-62: the order is confirmed and committed, or the commit fails and
\* the committed pending order stays.
CheckoutConfirm ==
    /\ fi.svc = "checkout" /\ fi.pc = "S60"
    /\ \/ fi' = [fi EXCEPT !.pc = "S65", !.done = @ \cup {"confirmed"}]
       \/ fi' = [fi EXCEPT !.pc = "raised", !.exc = "CheckoutError"]
    /\ FiUnchanged

\* Lines 65-76, _clear_cart (lines 245-262): the cart is cleared, or the
\* failure to clear it is logged; the order is returned and the route
\* answers 201.
CheckoutClearCart ==
    /\ fi.svc = "checkout" /\ fi.pc = "S65"
    /\ \E cleared \in BOOLEAN :
          fi' = [fi EXCEPT !.pc = "responded", !.status = 201,
                           !.done = IF cleared THEN @ \cup {"cart_cleared"} ELSE @]
    /\ FiUnchanged

\* checkout_service.py lines 78-92: every exception leaves process_checkout
\* as CheckoutError; checkout routes.py lines 90-121 answers it.
CheckoutStatus(exc) == 500

CheckoutRespondError ==
    /\ fi.svc = "checkout" /\ fi.pc = "raised"
    /\ fi' = [fi EXCEPT !.pc = "responded", !.exc = "CheckoutError",
                        !.status = CheckoutStatus("CheckoutError")]
    /\ FiUnchanged

\* The next request.
NextRequest ==
    /\ fi.pc = "responded"
    /\ fi' = FiInit
    /\ FiUnchanged

NextFault ==
    \/ FlagClientCall \/ RequestArrives \/ RouteInfraCheck
    \/ CatalogLatencyEnabled \/ CatalogLatencyApply
    \/ CatalogErrorEnabled \/ CatalogErrorRoll
    \/ CatalogSlowEnabled \/ CatalogSlowApply
    \/ CatalogQuery \/ CatalogRespondError
    \/ CheckoutFailureEnabled \/ CheckoutFailureRoll
    \/ CheckoutBusiness \/ CheckoutCreateOrder \/ CheckoutPayment
    \/ CheckoutConfirm \/ CheckoutClearCart \/ CheckoutRespondError
    \/ NextRequest

\* No background stressor is switched on; one request at a time walks the
\* request fault injector.
InitFault == InitProgram /\ switched_on = {}
SpecFault == InitFault /\ [][NextFault]_vars

\* The disk-stress scenario on its own: the steps the program can take when
\* infrastructure_disk_stress is the only flag switched on.
DiskRequestStep(r) ==
    \/ Respond(r)
    \/ CheckDiskStress(r) \/ DiskStressStart(r) \/ DiskStressClearStop(r)
    \/ DiskStressSpawn(r)
    \/ CheckPodCrash(r) \/ CheckDbConnectionFail(r) \/ CheckNetworkDelay(r)

NextDisk ==
    \/ \E r \in Reqs : DiskRequestStep(r)
    \/ \E t \in Threads : DiskWorkerStep(t)
    \/ SignalStopDisk

InitDisk == InitProgram /\ switched_on = {"disk_stress"}

\* Thread scheduling is fair: a worker that can take a step eventually does.
FairSpec ==
    /\ InitDisk /\ [][NextDisk]_vars
    /\ \A t \in Threads : WF_vars(DiskWorkerStep(t))

\* Both background stressors switched on: the crash scheduler runs beside a
\* disk-stress run.  Nobody sets a stop signal (the program itself never does).
BothRequestStep(r) ==
    \/ Respond(r)
    \/ CheckDiskStress(r) \/ DiskStressStart(r) \/ DiskStressClearStop(r)
    \/ DiskStressSpawn(r)
    \/ CheckPodCrash(r) \/ PodCrashStart(r) \/ PodCrashClearStop(r) \/ PodCrashSpawn(r)
    \/ CheckDbConnectionFail(r) \/ CheckNetworkDelay(r)

\* Requests are served one after the other by the first handler.
FirstReq == CHOOSE r \in Reqs : \A q \in Reqs : r <= q

NextBoth ==
    \/ BothRequestStep(FirstReq)
    \/ \E t \in Threads : DiskWorkerStep(t)
    \/ \E t \in Threads : CrashWorkerStep(t)

InitBoth == InitProgram /\ switched_on = Kinds
SpecBoth == InitBoth /\ [][NextBoth]_vars

\* ------------------------------------------------------ get_system_metrics
\* The endpoint is an `async def` that calls get_system_metrics without an
\* await: no other handler runs during the call, the worker threads do.
MetricsUnchanged ==
    UNCHANGED <<active_simulations, stop_disk_stress, stop_crash_scheduler, temp_files,
                disk_stress_thread, crash_scheduler_thread, dthr, cthr, disk, alive, req,
                switched_on, fi, active_keys>>

\* The flag of kind k as one step of the comprehension reads it.
FlagAtCall(k) == k \in metrics.at_call
FlagAsRead(k) == active_simulations[k]

\* The keys of the dict literal (lines 281-286) and those the sampling adds,
\* in the order of their assignment (lines 292-298).
BaseFields == {"timestamp", "active_simulations"}
ResourceFields == <<"cpu_usage_percent", "memory_usage_mb",
                    "disk_io_read_bytes", "disk_io_write_bytes">>
\* What the sampling can do: psutil is missing (the import of lines 12-15
\* failed), or it is there and `read` assignments are made before a call of
\* it raises (all of them when none does).
SampleOutcomes == {[psutil |-> p, read |-> n] : p \in BOOLEAN, n \in 0..Len(ResourceFields)}
Sampled(o) == IF o.psutil THEN {ResourceFields[k] : k \in 1..o.read} ELSE {}

\* A sampling whose errors leave get_system_metrics.
SamplingErrorRaises(m, o) ==
    IF o.psutil /\ o.read < Len(ResourceFields)
    THEN [m EXCEPT !.pc = "raised", !.keys = {}]
    ELSE [m EXCEPT !.pc = "L304", !.keys = @ \cup Sampled(o)]
\* `if psutil: try: ... except Exception: logger.warning(...)` and the else
\* branch (lines 289-302): the call goes on to its return with the keys
\* assigned so far.
AfterSampling(m, o) == [m EXCEPT !.pc = "L304", !.keys = @ \cup Sampled(o)]

\* The endpoint calls get_system_metrics; the comprehension is entered.
MetricsCall ==
    /\ alive /\ metrics.pc = "idle"
    /\ \A r \in Reqs : req[r].pc \notin SyncPCs
    /\ metrics' = [pc |-> "L283", i |-> 1, out |-> {},
                   at_call |-> {k \in Kinds : active_simulations[k]},
                   keys |-> BaseFields]
    /\ MetricsUnchanged

\* `name for name, active in self.active_simulations.items() if active`:
\* the next item of the dict is fetched and its value tested.
MetricsReadNext ==
    /\ alive /\ metrics.pc = "L283" /\ metrics.i <= Len(active_keys)
    /\ LET k == active_keys[metrics.i] IN
        metrics' = [metrics EXCEPT !.i = @ + 1,
                                   !.out = IF FlagAsRead(k) THEN @ \cup {k} ELSE @]
    /\ MetricsUnchanged

\* The dict is exhausted; psutil samples the process (cpu_percent blocks for
\* its interval) or the warning is logged.
MetricsSample ==
    /\ alive /\ metrics.pc = "L283" /\ metrics.i > Len(active_keys)
    /\ \E o \in SampleOutcomes : metrics' = AfterSampling(metrics, o)
    /\ MetricsUnchanged

\* `return metrics`
MetricsReturn ==
    /\ alive /\ metrics.pc = "L304"
    /\ metrics' = MetricsIdle
    /\ MetricsUnchanged

MetricsStep == MetricsCall \/ MetricsReadNext \/ MetricsSample \/ MetricsReturn

NextMetrics ==
    \/ BothRequestStep(FirstReq)
    \/ \E t \in Threads : DiskWorkerStep(t)
    \/ \E t \in Threads : CrashWorkerStep(t)
    \/ MetricsStep

SpecMetrics == InitBoth /\ [][NextMetrics]_vars

\* ------------------------------------------------------------------ claims
LiveDisk == {t \in Threads : IsAlive(dthr[t])}
LiveCrash == {t \in Threads : IsAlive(cthr[t])}

C2_ExitLeavesNothing ==
    [][\A t \in Threads :
          (dthr[t].pc = "L267" /\ dthr'[t].pc = "dead") =>
              /\ temp_files' = <<>>
              /\ disk' = {}
              /\ ~active_simulations'["disk_stress"]]_vars

\* C3: a start request made while the kind's active flag is true changes
\* nothing: no thread is created, the stop signal is not cleared, the running
\* worker's frame and temp_files are untouched, active stays true, and the
\* handler goes on to the next flag.
C3_StartWhileActiveIsNoOp ==
    [][\A r \in Reqs :
          /\ (req[r].pc = "L190" /\ active_simulations["disk_stress"] /\ req'[r] # req[r]) =>
                /\ req'[r].pc = "L57"
                /\ UNCHANGED <<active_simulations, stop_disk_stress, temp_files,
                               disk_stress_thread, dthr, disk>>
          /\ (req[r].pc = "L136" /\ active_simulations["pod_crash"] /\ req'[r] # req[r]) =>
                /\ req'[r].pc = "L65"
                /\ UNCHANGED <<active_simulations, stop_crash_scheduler,
                               crash_scheduler_thread, cthr>>]_vars

\* A start request has arrived while the run it would start is active, its
\* worker live and the stop signal set.
C3_Witness ==
    \/ \E r \in Reqs : /\ req[r].pc = "L190" /\ active_simulations["disk_stress"]
                       /\ LiveDisk # {} /\ stop_disk_stress
    \/ \E r \in Reqs : /\ req[r].pc = "L136" /\ active_simulations["pod_crash"]
                       /\ LiveCrash # {} /\ stop_crash_scheduler

\* C4 (as claimed): a failure while evaluating or applying one flag does not
\* keep the remaining flags from being fetched: every call of
\* check_and_apply_chaos that has returned has looked up all four flags.
C4_AllFlagsEvaluated ==
    \A r \in Reqs : req[r].pc = "business" => req[r].fetched = FlagNames

\* C5: check_and_apply_chaos never fails the request: whatever went wrong in
\* it was logged, and the handler is at business logic.
C5_ChaosNeverRaises ==
    \A r \in Reqs : /\ req[r].pc # "failed"
                    /\ (req[r].err # "none" => req[r].pc = "business")

\* The connection-failure stressor hit, and the handler reached business logic.
C5_Witness ==
    \E r \in Reqs : req[r].pc = "business" /\ req[r].err = "Exception"

\* The worker is in the body of its try block.
DiskBodyPCs == {"L210", "L219", "L232", "L237", "L254"}

C6_RateBounds ==
    (fi.roll >= 0 /\ IsInt(fi.rate)) =>
        /\ (fi.rate.n = 100 => fi.fault = "SimulatedError")
        /\ (fi.rate.n = 0 => fi.fault # "SimulatedError")

\* C7 (as claimed): a simulated fault raised by the request fault injector is
\* answered 503, in the catalog service and in the checkout service.
C7_SimulatedFaultIs503 ==
    (fi.pc = "responded" /\ fi.fault = "SimulatedError") => fi.status = 503

\* The answers of the flag source that are no usable flag.
IsBroken(reply) == reply.kind # "http" \/ reply.code # 200 \/ reply.parse # "dict"

\* C8: get_flag never raises; when the flag source gives no usable flag it
\* returns None, is_flag_enabled returns false and get_flag_config returns {};
\* and no transport error ever leaves the fault injector.
C8_GetFlagNeverRaises ==
    /\ fi.svc = "flag_client" =>
          /\ fi.got.exc = "none"
          /\ IsBroken(fi.reply) =>
                /\ fi.got.flag = NoneFlag
                /\ fi.got.enabled = FALSE
                /\ fi.got.config = DictCfg(EmptyMap)
    /\ fi.fault \notin {"TimeoutException", "ConnectError", "JSONDecodeError"}

\* The flag source was unreachable for a direct call of the client.
C8_Witness ==
    fi.svc = "flag_client" /\ fi.pc = "responded" /\ fi.reply = ConnectErrorReply

\* C9 (as claimed): no flag, however malformed, makes a fault check raise
\* anything but the simulated fault.
C9_MalformedFlagNeverRaises ==
    fi.fault \in {"none", "SimulatedError"}

\* C11: a crash roll within crashProbability ends the process at once and
\* nothing happens afterwards: no step is taken once the process is gone, the
\* terminating step resets no active flag and touches no temp file, and with
\* crashProbability 100 every roll terminates.
C11_CrashIsImmediate ==
    /\ [][/\ alive
          /\ ~alive' => /\ active_simulations' = active_simulations
                        /\ active_simulations'["pod_crash"]
                        /\ temp_files' = temp_files /\ disk' = disk
                        /\ dthr' = dthr /\ cthr' = cthr]_vars
    /\ [][\A t \in Threads :
             (/\ cthr[t].pc = "L162" /\ IsInt(cthr[t].prob) /\ cthr[t].prob.n >= RollHigh
              /\ (cthr'[t] # cthr[t] \/ alive' # alive)) => ~alive']_vars

\* The process was terminated while a disk-stress worker was running with
\* files on disk, and the pod-crash flag is still set.
C11_Witness ==
    /\ ~alive /\ active_simulations["pod_crash"]
    /\ LiveDisk # {} /\ temp_files # <<>> /\ disk # {}

\* Positions of the log that hold an event of kind ev for flag name.
At(ev, name) == {i \in DOMAIN fi.log : fi.log[i].ev = ev /\ fi.log[i].name = name}
LookupsAt == {i \in DOMAIN fi.log : fi.log[i].ev = "lookup"}

\* C12 (as claimed): the request passes the request fault injector before
\* the infrastructure check: no lookup of a request-fault flag comes after the
\* infrastructure check of the same request.
C12_InjectorBeforeInfraCheck ==
    \A i \in At("infra_check", "-"), j \in LookupsAt : j < i

\* The fault flags of each service.
FaultFlags(svc) ==
    IF svc = "catalog"
    THEN {"catalog_high_latency", "catalog_error_rate", "database_slow_queries"}
    ELSE IF svc = "checkout" THEN {"checkout_failure"} ELSE {}

\* C13 (as claimed): each fault check issues exactly one lookup per request:
\* never more than one, and one for every check of a request that was served.
C13_OneLookupPerCheck ==
    \A name \in FaultFlags(fi.svc) :
        /\ Cardinality(At("lookup", name)) <= 1
        /\ (fi.pc = "responded" /\ fi.status \in {200, 201})
               => Cardinality(At("lookup", name)) = 1

\* C14 (as claimed): the active flags and temp_files are written only by the
\* background workers: no step of a request handler changes them.
C14_OnlyWorkersWrite ==
    [][(active_simulations' # active_simulations \/ temp_files' # temp_files)
          => req' = req]_vars

\* C15 (as claimed): while the flag source answers infrastructure_network_delay
\* enabled with {delayMs: 2000, jitterMs: 0}, every request that reaches
\* business logic has been held for the full 2000 ms by the network delay.
C15_FullNetworkDelay ==
    "network_delay_fixed" \in switched_on =>
        \A r \in Reqs :
            req[r].pc = "business" =>
                /\ "infrastructure_network_delay" \in req[r].fetched
                /\ req[r].held >= 2000

ActiveNow == {k \in Kinds : active_simulations[k]}

\* C16 (as stated): get_system_metrics returns exactly the kinds whose active
\* flag is true at the moment of the call.
C16_ReportsFlagsAtCall == metrics.pc = "L304" => metrics.out = metrics.at_call

\* C16 (amended): get_system_metrics reads each kind's active flag once and
\* directly during the call and reports the kind exactly when that read is
\* true; so every reported kind was active when the call was made, and every
\* kind still active when the call returns is reported.  A worker that resets
\* its flag during the call may or may not be reported.
C16_ReportsFlagsAsRead ==
    /\ [](metrics.pc = "L304" =>
            /\ ActiveNow \subseteq metrics.out
            /\ metrics.out \subseteq metrics.at_call)
    /\ [][(metrics.pc = "L283" /\ metrics'.i = metrics.i + 1) =>
            LET k == active_keys[metrics.i] IN
            /\ (k \in metrics'.out) = active_simulations[k]
            /\ metrics'.out \ {k} = metrics.out]_vars
    /\ [][(metrics.pc = "L283" /\ metrics'.pc = "L304") =>
            /\ metrics.i > Len(active_keys)
            /\ metrics'.out = metrics.out]_vars
C16_Witness ==
    /\ metrics.pc = "L304" /\ Len(active_keys) = 2
    /\ metrics.out # metrics.at_call /\ metrics.out # ActiveNow

StartPCs == {"L190", "L200", "L270", "L136", "L149", "L175"}
Startable(handle, thr) == handle = 0 \/ ~IsAlive(thr[handle])

\* C17: starting a background stressor never makes the request wait for the
\* worker.  A handler inside a start step can always take its next step,
\* whatever the workers are doing; the step that launches the thread leaves
\* the worker at its first statement, with no file written, and the handler
\* past the start; and a start that finds the stressor active goes straight on.
C17_StartNeverWaits ==
    /\ [](\A r \in Reqs : (alive /\ LoopFree(r) /\ req[r].pc \in StartPCs)
                              => ENABLED RequestStep(r))
    /\ [][\A r \in Reqs : (req[r].pc = "L270" /\ req'[r] # req[r]) =>
            /\ req'[r].pc = "L57"
            /\ temp_files' = temp_files /\ disk' = disk
            /\ Startable(disk_stress_thread, dthr) =>
                   dthr'[disk_stress_thread'].pc = "L210"]_vars
    /\ [][\A r \in Reqs : (req[r].pc = "L175" /\ req'[r] # req[r]) =>
            /\ req'[r].pc = "L65"
            /\ alive'
            /\ Startable(crash_scheduler_thread, cthr) =>
                   cthr'[crash_scheduler_thread'].pc = "L156"]_vars
    /\ [][\A r \in Reqs :
            /\ (req[r].pc = "L190" /\ active_simulations["disk_stress"] /\ req'[r] # req[r])
                  => req'[r].pc = "L57"
            /\ (req[r].pc = "L136" /\ active_simulations["pod_crash"] /\ req'[r] # req[r])
                  => req'[r].pc = "L65"]_vars
C17_Witness ==
    \E r \in Reqs, t \in Threads, u \in Threads :
        /\ alive /\ req[r].pc = "business"
        /\ dthr[t].pc \in {"L210", "L219"}
        /\ cthr[u].pc = "L158"

\* C18: a stressor can always be restarted.  Whenever a start request has
\* found the stressor inactive and reaches the launch of the thread, a new
\* worker is running at its first statement when the start returns, at
\* whatever moment relative to the previous worker's exit.
C18_RestartStartsWorker ==
    [][\A r \in Reqs :
          /\ (req[r].pc = "L270" /\ req'[r].pc = "L57")
                => \E t \in Threads : dthr'[t].pc = "L210"
          /\ (req[r].pc = "L175" /\ req'[r].pc = "L65")
                => \E t \in Threads : cthr'[t].pc = "L156"]_vars

LaunchPCs(kind) == IF kind = "disk_stress" THEN {"L200", "L270"} ELSE {"L149", "L175"}
LiveWorkers(kind) == IF kind = "disk_stress" THEN LiveDisk ELSE LiveCrash

\* C19: whenever active[kind] is true, a worker thread of that kind is live,
\* or a start call is on its way to launch one: no reachable state has
\* active[kind] true with no worker running.
C19_ActiveHasWorker ==
    alive => \A kind \in Kinds :
        active_simulations[kind] =>
            \/ LiveWorkers(kind) # {}
            \/ \E r \in Reqs : req[r].pc \in LaunchPCs(kind)

\* The place of each catalog check in check_and_apply_failures.
Rank(name) ==
    CASE name = "catalog_high_latency" -> 1
      [] name = "catalog_error_rate" -> 2
      [] name = "database_slow_queries" -> 3
      [] OTHER -> 0
CheckEvents == {i \in DOMAIN fi.log : fi.log[i].ev \in {"lookup", "enabled", "sleep"}}
\* The time (ms) a request has been made to sleep, from its log.
RECURSIVE SleptMs(_)
SleptMs(log) ==
    IF log = <<>> THEN 0
    ELSE (IF Head(log).ev = "sleep" THEN Head(log).ms ELSE 0) + SleptMs(Tail(log))

\* C20: the catalog's request fault injector applies its checks in the order
\* latency, error-rate, slow-query, each gated by its own flag.  A delay is
\* injected only after its own flag was found enabled; the request's delay is
\* the sum of the delays injected; a request that reaches the query with the
\* latency and the slow-query flag both found enabled has slept for both; and
\* when the error-rate check raises SimulatedError the latency delay of an
\* enabled latency flag has been applied and the slow-query check is not made.
C20_FixedOrderAdditive ==
    fi.svc = "catalog" =>
        /\ \A i \in CheckEvents, j \in CheckEvents :
               i < j => Rank(fi.log[i].name) <= Rank(fi.log[j].name)
        /\ \A name \in FaultFlags("catalog") :
               \A i \in At("sleep", name) : \E j \in At("enabled", name) : j < i
        /\ fi.delay = SleptMs(fi.log)
        /\ (/\ At("business", "-") # {}
            /\ At("enabled", "catalog_high_latency") # {}
            /\ At("enabled", "database_slow_queries") # {})
              => /\ Cardinality(At("sleep", "catalog_high_latency")) = 1
                 /\ Cardinality(At("sleep", "database_slow_queries")) = 1
        /\ fi.fault = "SimulatedError"
              => /\ At("lookup", "database_slow_queries") = {}
                 /\ At("sleep", "database_slow_queries") = {}
                 /\ At("enabled", "catalog_high_latency") # {}
                       => At("sleep", "catalog_high_latency") # {}
C20_Witness ==
    /\ fi.svc = "catalog" /\ fi.pc = "responded" /\ fi.status = 200
    /\ fi.roll >= 0
    /\ \E i \in At("sleep", "catalog_high_latency"), j \in At("sleep", "database_slow_queries") :
          /\ i < j /\ fi.log[i].ms > 0 /\ fi.log[j].ms > 0
          /\ fi.delay = fi.log[i].ms + fi.log[j].ms

\* ------------------------------------------------ the two latency sites
\* One run exercises one site: the network-delay stressor of the
\* infrastructure check, or the request fault injector.
NetRequestStep(r) ==
    \/ Respond(r)
    \/ CheckDiskStress(r) \/ CheckPodCrash(r) \/ CheckDbConnectionFail(r)
    \/ CheckNetworkDelay(r) \/ NetworkDelaySleep(r)
InitSites == InitProgram /\ switched_on \in {{}, {"network_delay"}}
NextSites ==
    \/ switched_on = {"network_delay"} /\ \E r \in Reqs : NetRequestStep(r)
    \/ switched_on = {} /\ NextFault
SpecSites == InitSites /\ [][NextSites]_vars

\* base and jitterMs of a latency config (jitterMs is optional at the request
\* site, which draws no jitter).
BaseMs(config, key, default) == CfgGet(config, key, default).n
JitterMs(config, default) ==
    LET j == CfgGet(config, "jitterMs", default) IN IF IsInt(j) THEN j.n ELSE default
WithinJitter(ms, base, j) ==
    /\ ms >= 0
    /\ base >= 0 => /\ Max(0, base - j) <= ms /\ ms <= base + j
                    /\ j = 0 => ms = base
\* The request fault injector has just slept for its latency check.
LatencySlept ==
    /\ fi.pc = "F63" /\ fi.log # <<>>
    /\ fi.log[Len(fi.log)].ev = "sleep"
    /\ fi.log[Len(fi.log)].name = "catalog_high_latency"

C22_OneRollHitsWithinRate ==
    /\ [](\A r \in Reqs : /\ Len(req[r].rolled) <= 1
                           /\ req[r].pc = "L118" => Len(req[r].rolled) = 1)
    /\ [][\A r \in Reqs :
            (/\ req[r].pc = "L65" /\ Len(req'[r].rolled) = 1
             /\ IsInt(req'[r].rolled[1].rate)) =>
                LET roll == req'[r].rolled[1].roll
                    rate == req'[r].rolled[1].rate.n
                IN /\ req'[r].pc \in {"L118", "L70"}
                   /\ (req'[r].pc = "L118") = (roll <= rate)
                   /\ rate = 0 => req'[r].pc = "L70"
                   /\ rate = 100 => req'[r].pc = "L118"
                   /\ req'[r].held = req[r].held /\ req'[r].err = req[r].err]_vars
    /\ [][\A r \in Reqs :
            (req[r].pc = "L118" /\ req'[r] # req[r] /\ IsInt(req[r].a)) =>
                /\ req'[r].held = req[r].held + req[r].a.n
                /\ req'[r].err = "Exception"
                /\ req'[r].rolled = req[r].rolled]_vars
C22_Witness ==
    \E r \in Reqs :
        /\ req[r].pc = "business" /\ req[r].err = "Exception"
        /\ req[r].held = DefaultDbTimeoutMs
        /\ Len(req[r].rolled) = 1
        /\ req[r].rolled[1].roll = req[r].rolled[1].rate.n

\* A step of crash-scheduler thread t.
CrashThreadSteps(t) == cthr'[t] # cthr[t] \/ (alive /\ ~alive' /\ cthr[t].pc = "L162")

\* C23: the crash scheduler draws a roll only after a wait that ran its whole
\* interval without the stop signal, and one roll per interval: the roll is
\* reached only from an uninterrupted wait and leads back to the loop test
\* or ends the process; the process is ended only by a roll, never with
\* crashProbability 0 and always with crashProbability 100; a wait that ends
\* with the stop signal set leaves the loop without a roll, and the worker
\* then resets active['pod_crash'].
C23_RollAfterFullWait ==
    /\ [][\A t \in Threads :
            (cthr'[t].pc = "L162" /\ cthr[t].pc # "L162")
                => cthr[t].pc = "L158" /\ ~stop_crash_scheduler]_vars
    /\ [][\A t \in Threads :
            (cthr[t].pc = "L162" /\ CrashThreadSteps(t) /\ IsInt(cthr[t].prob)) =>
                /\ ~alive' \/ cthr'[t].pc = "L156"
                /\ cthr[t].prob.n = 0 => alive'
                /\ cthr[t].prob.n = 100 => ~alive']_vars
    /\ [][(alive /\ ~alive') => \E t \in Threads : cthr[t].pc = "L162"]_vars
    /\ [][\A t \in Threads :
            (cthr[t].pc = "L158" /\ stop_crash_scheduler /\ CrashThreadSteps(t))
                => cthr'[t].pc = "L171" /\ alive']_vars
    /\ [][\A t \in Threads :
            (cthr[t].pc = "L171" /\ CrashThreadSteps(t))
                => ~active_simulations'["pod_crash"]]_vars
C23_Witness ==
    /\ ~alive
    /\ \E t \in Threads : cthr[t].pc = "L162" /\ cthr[t].prob = IntVal(100)

\* C24: every disk-stress run terminates.  Under fair scheduling a worker in
\* its try block eventually has reset active['disk_stress'] and is past its
\* cleanup, stop signal or not; and a loop test made once durationSeconds
\* has elapsed leaves the loop for the cleanup.
C24_DiskRunTerminates ==
    /\ \A t \in Threads :
          (dthr[t].pc \in DiskBodyPCs)
              ~> (~active_simulations["disk_stress"] /\ dthr[t].pc \in {"L267", "dead"})
    /\ [][\A t \in Threads :
            (/\ dthr[t].pc = "L232" /\ IsInt(dthr[t].duration)
             /\ dthr[t].elapsed >= dthr[t].duration.n /\ dthr'[t] # dthr[t])
                => dthr'[t].pc = "L258"]_vars
\* The duration of a run nobody stopped has elapsed with files on disk, and
\* the worker has left its loop.
C24_Witness ==
    \E t \in Threads :
        /\ dthr[t].pc = "L258" /\ ~stop_disk_stress
        /\ IsInt(dthr[t].duration) /\ dthr[t].duration.n >= 1
        /\ dthr[t].elapsed >= dthr[t].duration.n
        /\ disk # {}

\* ------------------------------------------------- restarts and stale stops
\* One background stressor is switched on and its stop event is set from
\* outside at any moment except between a start's clear() and its launch of
\* the thread: every signal a new worker could meet at its launch is one
\* that was set before the clear.
RestartRequestStep(r) ==
    \/ Respond(r)
    \/ CheckDiskStress(r) \/ DiskStressStart(r) \/ DiskStressClearStop(r)
    \/ DiskStressSpawn(r)
    \/ CheckPodCrash(r) \/ PodCrashStart(r) \/ PodCrashClearStop(r) \/ PodCrashSpawn(r)
    \/ CheckDbConnectionFail(r) \/ CheckNetworkDelay(r)
StaleStopDisk == (\A r \in Reqs : req[r].pc # "L270") /\ SignalStopDisk
StaleStopCrash == (\A r \in Reqs : req[r].pc # "L175") /\ SignalStopCrash
NextRestart ==
    \/ \E r \in Reqs : RestartRequestStep(r)
    \/ \E t \in Threads : DiskWorkerStep(t)
    \/ \E t \in Threads : CrashWorkerStep(t)
    \/ StaleStopDisk
    \/ StaleStopCrash
InitRestart == InitProgram /\ switched_on \in {{"disk_stress"}, {"pod_crash"}}
SpecRestart == InitRestart /\ [][NextRestart]_vars

\* C25: on each (re)start the stop signal is cleared before the new worker
\* can observe it.  The step after the start's clear() leaves the signal
\* unset, a thread is launched only by a start that has passed that step, and
\* at the launch the signal is unset: a signal left from an earlier run or
\* set while the stressor was idle is never seen by the new worker.
C25_RestartClearsStop ==
    /\ [][\A r \in Reqs :
            /\ (req[r].pc = "L200" /\ req'[r].pc = "L270") => ~stop_disk_stress'
            /\ (req[r].pc = "L149" /\ req'[r].pc = "L175") => ~stop_crash_scheduler'
            /\ (req'[r].pc = "L270" /\ req[r].pc # "L270") => req[r].pc = "L200"
            /\ (req'[r].pc = "L175" /\ req[r].pc # "L175") => req[r].pc = "L149"]_vars
    /\ [][\A t \in Threads :
            /\ (~IsAlive(dthr[t]) /\ IsAlive(dthr'[t])) =>
                  /\ \E r \in Reqs : req[r].pc = "L270" /\ req'[r].pc = "L57"
                  /\ ~stop_disk_stress'
            /\ (~IsAlive(cthr[t]) /\ IsAlive(cthr'[t])) =>
                  /\ \E r \in Reqs : req[r].pc = "L175" /\ req'[r].pc = "L65"
                  /\ ~stop_crash_scheduler']_vars
\* A start is about to clear a stop signal that is still set.
C25_Witness ==
    \E r \in Reqs :
        /\ req[r].pc = "L200" /\ stop_disk_stress
        /\ \A t \in Threads : ~IsAlive(dthr[t])

C27_OwnInputsDecide ==
    [][\A r \in Reqs :
          /\ (req[r].pc = "L190" /\ req'[r] # req[r]) =>
                (req'[r].pc = "business") = CfgGetRaises(req[r].config)
          /\ (req[r].pc = "L136" /\ req'[r] # req[r]) =>
                (req'[r].pc = "business") = CfgGetRaises(req[r].config)]_vars

\* The value a check would read under `key` from the flag version of `reply`,
\* NoVal when that version has no usable config.
ValueIn(reply, key, default) ==
    LET c == get_flag_config(reply)
    IN  IF c.exc # "none" \/ CfgGetRaises(c.val) THEN NoVal
        ELSE CfgGet(c.val, key, default)
\* The config key each request-fault check reads after its flag was found
\* enabled, and the value the step fi -> fi' applied (NoVal when none).
KeyAt(pc) == CASE pc = "F50" -> "latencyMs" [] pc = "F81" -> "delayMs"
               [] pc = "F64" -> "errorRate" [] OTHER -> "failureRate"
DefaultAt(pc) == CASE pc = "F50" -> DefaultLatencyMs [] pc = "F81" -> DefaultSlowQueryMs
                   [] pc = "F64" -> DefaultErrorRate [] OTHER -> DefaultCheckoutFailureRate
\* C28 (as claimed): the value a request-fault check applies (the sleep of a
\* delay check, the rate of an error check) is the one of the flag version
\* that its enabled test found enabled, whatever the flag source answers to
\* the config lookup that follows.
C28_ConfigOfEnabledSnapshot ==
    [][((fi.pc \in {"F50", "F81"} /\ Len(fi'.log) = Len(fi.log) + 2) =>
            (LET v == ValueIn(fi.reply, KeyAt(fi.pc), DefaultAt(fi.pc))
             IN  IsInt(v) /\ fi'.log[Len(fi'.log)].ms = Slept(v.n)))
       /\ ((fi.pc \in {"F64", "X43"} /\ fi'.roll # -1) =>
            fi'.rate = ValueIn(fi.reply, KeyAt(fi.pc), DefaultAt(fi.pc)))]_vars

\* ------------------------------------------------ a flag that is switched off
\* The flag of the one background stressor that is switched on is disabled or
\* removed at the flag source at any moment: from then on every lookup of it
\* finds it absent or disabled.  Nobody sets a stop event.
FlagSwitchedOff(kind) ==
    /\ alive /\ kind \in switched_on
    /\ switched_on' = switched_on \ {kind}
    /\ UNCHANGED <<active_simulations, stop_disk_stress, stop_crash_scheduler, temp_files,
                   disk_stress_thread, crash_scheduler_thread, dthr, cthr, disk, alive,
                   req, fi, active_keys, metrics>>
NextOff ==
    \/ \E r \in Reqs : RestartRequestStep(r)
    \/ \E t \in Threads : DiskWorkerStep(t)
    \/ \E t \in Threads : CrashWorkerStep(t)
    \/ \E kind \in Kinds : FlagSwitchedOff(kind)
SpecOff == InitRestart /\ [][NextOff]_vars

\* C29: no operation of the controller sets a stop signal, and switching a
\* stressor's flag off does not stop its running worker.  The stop events
\* stay unset; a live worker's frame is moved by the worker alone, never by a
\* request or by the flag going off; a disk-stress worker leaves its loops
\* for the cleanup only at the loop test with durationSeconds elapsed (or by
\* the TypeError of a malformed config); a crash scheduler goes from its loop
\* test to the wait and from the wait to the roll, and with the flag off its
\* roll can still end the process.
C29_FlagOffStopsNothing ==
    /\ [](~stop_disk_stress /\ ~stop_crash_scheduler)
    /\ [](\A t \in Threads :
            ("pod_crash" \notin switched_on /\ alive /\ cthr[t].pc = "L162"
             /\ IsInt(cthr[t].prob) /\ cthr[t].prob.n >= RollLow)
                => ENABLED (CrashRoll(t) /\ ~alive'))
    /\ [][\A t \in Threads :
            /\ (IsAlive(dthr[t]) /\ dthr'[t] # dthr[t]) =>
                  (req' = req /\ switched_on' = switched_on)
            /\ (IsAlive(cthr[t]) /\ cthr'[t] # cthr[t]) =>
                  (req' = req /\ switched_on' = switched_on)
            /\ (dthr[t].pc \in DiskBodyPCs /\ dthr'[t].pc = "L258") =>
                  \/ ~IsInt(dthr[t].intensity) \/ ~IsInt(dthr[t].duration)
                  \/ (dthr[t].pc = "L232" /\ ~DurationLeft(dthr[t]))
            /\ (cthr[t].pc = "L156" /\ cthr'[t] # cthr[t]) => cthr'[t].pc = "L158"
            /\ (cthr[t].pc = "L158" /\ cthr'[t] # cthr[t]) =>
                  (cthr'[t].pc = "L162" \/ ~IsInt(cthr[t].interval))]_vars
\* The process was terminated by a scheduler whose flag had been switched
\* off before.
C29_Witness ==
    /\ ~alive /\ switched_on = {}
    /\ \E t \in Threads : cthr[t].pc = "L162"

\* C30 (as claimed): once the stop signal of the crash scheduler is set, no
\* crash roll is drawn and the process is not terminated, wherever in its
\* wait/roll loop the worker is when the signal arrives.
C30_NoRollAfterStop ==
    [][stop_crash_scheduler =>
          /\ alive' = alive
          /\ \A t \in Threads : cthr[t].pc = "L162" => cthr'[t] = cthr[t]]_vars

C32_ParametersFixedAtStart ==
    /\ [][\A r \in Reqs :
            /\ ((req[r].pc = "L190" /\ req'[r].pc = "L200") =>
                  (/\ req'[r].a = CfgGet(req[r].config, "intensityLevel", DefaultIntensity)
                   /\ req'[r].b = CfgGet(req[r].config, "durationSeconds", DefaultDuration)))
            /\ ((req[r].pc = "L136" /\ req'[r].pc = "L149") =>
                  (/\ req'[r].a = CfgGet(req[r].config, "crashIntervalMinutes",
                                         DefaultCrashInterval)
                   /\ req'[r].b = CfgGet(req[r].config, "crashProbability",
                                         DefaultCrashProbability)))
            /\ ((req[r].pc \in {"L200", "L149"} /\ req'[r] # req[r]) =>
                  (req'[r].a = req[r].a /\ req'[r].b = req[r].b))]_vars
    /\ [][\A t \in Threads :
            /\ ((IsAlive(dthr[t]) /\ IsAlive(dthr'[t])) =>
                  (/\ dthr'[t].intensity = dthr[t].intensity
                   /\ dthr'[t].duration = dthr[t].duration))
            /\ ((IsAlive(cthr[t]) /\ IsAlive(cthr'[t])) =>
                  (/\ cthr'[t].interval = cthr[t].interval
                   /\ cthr'[t].prob = cthr[t].prob))
            /\ ((~IsAlive(dthr[t]) /\ IsAlive(dthr'[t])) =>
                  (\E r \in Reqs : /\ req[r].pc = "L270"
                                   /\ dthr'[t].intensity = req[r].a
                                   /\ dthr'[t].duration = req[r].b))
            /\ ((~IsAlive(cthr[t]) /\ IsAlive(cthr'[t])) =>
                  (\E r \in Reqs : /\ req[r].pc = "L175"
                                   /\ cthr'[t].interval = req[r].a
                                   /\ cthr'[t].prob = req[r].b))]_vars
\* A scheduler started with crashProbability 100 is running while a later
\* request has found the flag enabled with crashProbability 0.
C32_Witness ==
    \E t \in Threads, r \in Reqs :
        /\ alive /\ IsAlive(cthr[t]) /\ cthr[t].prob = IntVal(100)
        /\ req[r].pc = "L136" /\ ~CfgGetRaises(req[r].config)
        /\ CfgGet(req[r].config, "crashProbability", DefaultCrashProbability) = IntVal(0)

\* The temp files listed in temp_files.
ListedFiles == {temp_files[k] : k \in DOMAIN temp_files}
\* The worker is in its read/append loop.
DiskLoopPCs == {"L232", "L237", "L254"}
\* num_files as range() counts it.
NumFiles(f) == IF f.intensity.n > 0 THEN f.intensity.n ELSE 0

C34_MetricsNeverFail ==
    /\ [](metrics.pc \in {"idle", "L283", "L304"})
    /\ [](metrics.pc = "L304" =>
            (/\ BaseFields \subseteq metrics.keys
             /\ \E n \in 0..Len(ResourceFields) :
                    metrics.keys = BaseFields \cup {ResourceFields[k] : k \in 1..n}))
    /\ [][(metrics.pc = "L283" /\ metrics' # metrics) =>
            (metrics'.pc \in {"L283", "L304"} /\ BaseFields \subseteq metrics'.keys)]_vars
    /\ [][(metrics.pc = "L304" /\ metrics' # metrics) => metrics'.pc = "idle"]_vars
\* A call is about to return without the disk I/O fields: the sampling
\* stopped after the memory reading.
C34_Witness ==
    /\ metrics.pc = "L304"
    /\ metrics.keys = BaseFields \cup {"cpu_usage_percent", "memory_usage_mb"}

\* C35: in the checkout service the simulated-failure check runs before any
\* order is created.  A request on which the check raised its simulated
\* fault has no order and no order items persisted and has had no cart
\* validation, payment or cart clearing done for it, and its business logic
\* never starts; a request for which anything has been done has been through
\* the lookup of checkout_failure without a fault.
C35_SimulatedFaultBeforeOrder ==
    /\ [](fi.svc = "checkout" /\ fi.fault = "SimulatedError" =>
            (fi.done = {} /\ At("business", "-") = {}
             /\ fi.pc \in {"raised", "responded"}))
    /\ [](fi.svc = "checkout" /\ fi.done # {} =>
            (fi.fault = "none" /\ At("lookup", "checkout_failure") # {}))
    /\ [][(fi.svc = "checkout" /\ fi.pc = "X43" /\ fi'.fault = "SimulatedError") =>
            (fi.done = {} /\ fi'.done = {})]_vars
\* A checkout was answered 500 for the simulated fault.
C35_Witness ==
    /\ fi.svc = "checkout" /\ fi.pc = "responded"
    /\ fi.fault = "SimulatedError" /\ fi.status = 500

====
